---- MODULE Spec2Model ----
(***************************************************************************)
(* Position/range translation (language-service/lib/documents.ts) and the  *)
(* result-transformation pipeline (typescript/lib/node/transform.ts).      *)
(*                                                                         *)
(* Optional values (T | undefined) are sequences of length at most one;    *)
(* generators are the sequences of the values they yield, in yield order.  *)
(***************************************************************************)
EXTENDS Integers, Sequences, FiniteSets, TLC

VARIABLES
    sourceFileDocument,     \* SourceMapWithDocuments.sourceFileDocument
    virtualFileDocument,    \* SourceMapWithDocuments.virtualFileDocument
    map,                    \* SourceMapWithDocuments.map: the mappings, in declaration order
    last,                   \* the last completed operation: its inputs and what it returned
    snapshot2Doc,           \* createDocumentProvider: snapshot -> (uri -> TextDocument)
    version,                \* createDocumentProvider: the version counter
    getTextCalls,           \* number of snapshot.getText calls made, per snapshot
    requested,              \* the (snapshot, uri) pairs get() was called with
    files,                  \* FileRegistry: the file names registered as generated documents
    diagnostics,            \* the heap of ts.Diagnostic objects, by identity
    initialDiagnostics,     \* the heap as it was before any transform ran
    transformedDiagnostics, \* the WeakMap memo: diagnostic identity -> optional result
    stack,                  \* call stack of transformDiagnostic activations
    bodyRuns,               \* how many times the body ran, per diagnostic identity
    reentered               \* diagnostics whose memo was read while their body was running

vars == << sourceFileDocument, virtualFileDocument, map, last, snapshot2Doc, version,
           getTextCalls, requested, files, diagnostics, initialDiagnostics,
           transformedDiagnostics, stack, bodyRuns, reentered >>

----------------------------------------------------------------------------
(* Bounds *)

MaxMappings == 3

----------------------------------------------------------------------------
(* Sequence helpers *)

RECURSIVE Flatten(_)
Flatten(ss) == IF ss = << >> THEN << >> ELSE Head(ss) \o Flatten(Tail(ss))

First(s) == IF s = << >> THEN << >> ELSE << Head(s) >>

Min(a, b) == IF a <= b THEN a ELSE b
Max(a, b) == IF a >= b THEN a ELSE b

----------------------------------------------------------------------------
(* TextDocument: text length and line-start table *)

lineCount(doc) == Len(doc.lineOffsets)

positionAt(doc, offset) ==
    LET o == Max(Min(offset, doc.len), 0)
        line == CHOOSE i \in 1..lineCount(doc) :
                    /\ doc.lineOffsets[i] <= o
                    /\ \A j \in 1..lineCount(doc) : doc.lineOffsets[j] <= o => j <= i
    IN  [line |-> line - 1, character |-> o - doc.lineOffsets[line]]

offsetAt(doc, position) ==
    IF position.line >= lineCount(doc) THEN doc.len
    ELSE IF position.line < 0 THEN 0
    ELSE LET lineOffset == doc.lineOffsets[position.line + 1]
             nextLineOffset == IF position.line + 1 < lineCount(doc)
                               THEN doc.lineOffsets[position.line + 2]
                               ELSE doc.len
         IN  Max(Min(lineOffset + position.character, nextLineOffset), lineOffset)

----------------------------------------------------------------------------
(* Segment mapping (consumed): capability data, point translation *)

Filters == {"all", "none", "verification", "navigation"}

filter(f, data) ==
    CASE f = "all" -> TRUE
      [] f = "none" -> FALSE
      [] f = "verification" -> data.verification
      [] f = "navigation" -> data.navigation

shouldReportDiagnostics == "verification"

translateOffset(start, fromOffsets, toOffsets, lengths) ==
    LET hits == { i \in 1..Len(fromOffsets) :
                    start >= fromOffsets[i] /\ start <= fromOffsets[i] + lengths[i] }
    IN  IF hits = {} THEN << >>
        ELSE LET i == CHOOSE k \in hits : \A j \in hits : k <= j
             IN  << toOffsets[i] + start - fromOffsets[i] >>

\* A translated offset with the mapping that translated it, if it did.
matched(mapped, i) ==
    IF mapped = << >> THEN << >> ELSE << [offset |-> mapped[1], mapping |-> i] >>

\* Every mapping that translates the offset, in declaration order: [offset, mapping].
findMatching(offset, from, to) ==
    Flatten([ i \in 1..Len(map) |->
        matched(translateOffset(offset, map[i][from], map[i][to], map[i].lengths), i) ])

getSourceOffsets(generatedOffset) ==
    findMatching(generatedOffset, "generatedOffsets", "sourceOffsets")

----------------------------------------------------------------------------
(* SourceMapWithDocuments: position APIs *)

\* The loop of findPositions without the filter test.
yieldPositions_Unfiltered(matches, f, toDoc) ==
    [ k \in 1..Len(matches) |->
        [position |-> positionAt(toDoc, matches[k].offset),
         mapping |-> matches[k].mapping] ]

\* The loop of findPositions: [position, mapping] for every match whose mapping's data
\* passes f.
yieldPositions(matches, f, toDoc) ==
    Flatten([ k \in 1..Len(matches) |->
        IF ~filter(f, map[matches[k].mapping].data) THEN << >>
        ELSE << [position |-> positionAt(toDoc, matches[k].offset),
                 mapping |-> matches[k].mapping] >> ])

\* findPositions converting the mapped offset on the document the position came from.
findPositions_WrongDocument(position, f, fromDoc, toDoc, from, to) ==
    yieldPositions(findMatching(offsetAt(fromDoc, position), from, to), f, fromDoc)

findPositions(position, f, fromDoc, toDoc, from, to) ==
    yieldPositions(findMatching(offsetAt(fromDoc, position), from, to), f, toDoc)

getSourcePositionsBase(position, f) ==
    findPositions(position, f, virtualFileDocument, sourceFileDocument,
                  "generatedOffsets", "sourceOffsets")

getGeneratedPositionsBase(position, f) ==
    findPositions(position, f, sourceFileDocument, virtualFileDocument,
                  "sourceOffsets", "generatedOffsets")

\* mapped[0] of every yielded pair.
positionsOf(base) == [ k \in 1..Len(base) |-> base[k].position ]

getSourcePositions(position, f) == positionsOf(getSourcePositionsBase(position, f))

getGeneratedPositions(position, f) == positionsOf(getGeneratedPositionsBase(position, f))

getSourcePosition(position, f) == First(getSourcePositions(position, f))

getGeneratedPosition(position, f) == First(getGeneratedPositions(position, f))

\* The position of an offset that may be undefined.
positionIfDefined(doc, offset) ==
    IF offset # << >> THEN << positionAt(doc, offset[1]) >> ELSE << >>

matchSourcePosition(position, mapping) ==
    positionIfDefined(sourceFileDocument,
        translateOffset(offsetAt(virtualFileDocument, position),
                        map[mapping].generatedOffsets,
                        map[mapping].sourceOffsets,
                        map[mapping].lengths))

matchGeneratedPosition(position, mapping) ==
    positionIfDefined(virtualFileDocument,
        translateOffset(offsetAt(sourceFileDocument, position),
                        map[mapping].sourceOffsets,
                        map[mapping].generatedOffsets,
                        map[mapping].lengths))

----------------------------------------------------------------------------
(* SourceMapWithDocuments: range APIs *)

positionsBase(api, position, f) ==
    IF api = "getSourcePositionsBase" THEN getSourcePositionsBase(position, f)
    ELSE getGeneratedPositionsBase(position, f)

matchPosition(api2, position, mapping) ==
    IF api2 = "matchSourcePosition" THEN matchSourcePosition(position, mapping)
    ELSE matchGeneratedPosition(position, mapping)

\* The first loop of findRanges matching range.start where it should match range.end.
startLookUps_EndFromStart(starts, range, api2) ==
    [ k \in 1..Len(starts) |->
        [mapped |-> starts[k],
         end |-> matchPosition(api2, range.start, starts[k].mapping)] ]

\* The first loop of findRanges: for each start candidate, the end its own mapping
\* gives (empty when that mapping cannot translate range.end).
startLookUps(starts, range, api2) ==
    [ k \in 1..Len(starts) |->
        [mapped |-> starts[k],
         end |-> matchPosition(api2, range.end, starts[k].mapping)] ]

\* findRanges discarding the start candidates whose mapping cannot translate the end.
failedLookUps_Discarded(looks) == << >>

\* The start candidates the first loop pushed to failedLookUps.
failedLookUps(looks) ==
    Flatten([ k \in 1..Len(looks) |->
        IF looks[k].end = << >> THEN << looks[k].mapped >> ELSE << >> ])

\* What the first loop yields.
firstLoop(looks) ==
    Flatten([ k \in 1..Len(looks) |->
        IF looks[k].end # << >>
        THEN << [range |-> [start |-> looks[k].mapped.position, end |-> looks[k].end[1]],
                 startMapping |-> looks[k].mapped.mapping,
                 endMapping |-> looks[k].mapped.mapping,
                 loop |-> 1] >>
        ELSE << >> ])

\* What the second loop yields.
secondLoop(failed, ends) ==
    Flatten([ k \in 1..Len(failed) |->
        [ j \in 1..Len(ends) |->
            [range |-> [start |-> failed[k].position, end |-> ends[j].position],
             startMapping |-> failed[k].mapping,
             endMapping |-> ends[j].mapping,
             loop |-> 2] ] ])

\* findRanges yielding the fallback ranges ahead of the first loop's.
bothLoops_FallbackFirst(looks, ends) ==
    secondLoop(failedLookUps(looks), ends) \o firstLoop(looks)

bothLoops(looks, ends) == firstLoop(looks) \o secondLoop(failedLookUps(looks), ends)

\* findRanges with, next to each yielded range, the mappings its start and end came from
\* and the loop that yielded it.
findRangesTraced(range, f, api, api2) ==
    bothLoops(startLookUps(positionsBase(api, range.start, f), range, api2),
              positionsBase(api, range.end, f))

rangesOf(traced) == [ k \in 1..Len(traced) |-> traced[k].range ]

findRanges(range, f, api, api2) == rangesOf(findRangesTraced(range, f, api, api2))

getSourceRanges(range, f) ==
    findRanges(range, f, "getSourcePositionsBase", "matchSourcePosition")

getGeneratedRanges(range, f) ==
    findRanges(range, f, "getGeneratedPositionsBase", "matchGeneratedPosition")

getSourceRange(range, f) == First(getSourceRanges(range, f))

getGeneratedRange(range, f) == First(getGeneratedRanges(range, f))

----------------------------------------------------------------------------
(* The translator's inputs: documents, mappings, positions and ranges *)

Full == [verification |-> TRUE, navigation |-> TRUE]
NavigationOnly == [verification |-> FALSE, navigation |-> TRUE]
VerificationOnly == [verification |-> TRUE, navigation |-> FALSE]

Mapping(sourceOffsets, generatedOffsets, lengths, data) ==
    [sourceOffsets |-> sourceOffsets, generatedOffsets |-> generatedOffsets,
     lengths |-> lengths, data |-> data]

\* Mappings computed against SourceText / GeneratedText: every segment lies inside
\* both documents.
MappingPool ==
    { Mapping(<<0>>, <<1>>, <<3>>, Full),
      Mapping(<<0>>, <<0>>, <<2>>, Full),
      Mapping(<<5>>, <<3>>, <<2>>, Full),
      Mapping(<<5>>, <<3>>, <<2>>, NavigationOnly),
      Mapping(<<0, 2>>, <<0, 3>>, <<2, 3>>, VerificationOnly) }

SourceMaps ==
    UNION { [1..n -> MappingPool] : n \in 1..MaxMappings }

SourceText == [len |-> 7, lineOffsets |-> <<0, 4>>]
GeneratedText == [len |-> 6, lineOffsets |-> <<0, 2>>]

Positions(doc) == { positionAt(doc, o) : o \in 0..doc.len }

Ranges(doc) ==
    { [start |-> positionAt(doc, ab[1]), end |-> positionAt(doc, ab[2])] :
        ab \in { ab \in (0..doc.len) \X (0..doc.len) : ab[1] <= ab[2] } }

----------------------------------------------------------------------------
(* Translator queries: Init draws the translator and the query, the action answers it *)

RangeOps == {"getSourceRanges", "getGeneratedRanges", "getSourceRange", "getGeneratedRange"}
PositionOps == {"getSourcePositions", "getGeneratedPositions",
                "getSourcePosition", "getGeneratedPosition"}

FromGenerated(op) ==
    op \in {"getSourceRanges", "getSourceRange", "getSourcePositions", "getSourcePosition"}

Queries ==
    { [op |-> op, arg |-> r, filter |-> f, done |-> FALSE, result |-> << >>, traced |-> << >>] :
        op \in {o \in RangeOps : FromGenerated(o)}, r \in Ranges(GeneratedText), f \in Filters }
    \cup
    { [op |-> op, arg |-> r, filter |-> f, done |-> FALSE, result |-> << >>, traced |-> << >>] :
        op \in {o \in RangeOps : ~FromGenerated(o)}, r \in Ranges(SourceText), f \in Filters }
    \cup
    { [op |-> op, arg |-> q, filter |-> f, done |-> FALSE, result |-> << >>, traced |-> << >>] :
        op \in {o \in PositionOps : FromGenerated(o)}, q \in Positions(GeneratedText),
        f \in Filters }
    \cup
    { [op |-> op, arg |-> q, filter |-> f, done |-> FALSE, result |-> << >>, traced |-> << >>] :
        op \in {o \in PositionOps : ~FromGenerated(o)}, q \in Positions(SourceText),
        f \in Filters }

NoStore ==
    /\ snapshot2Doc = << >>
    /\ version = 0
    /\ getTextCalls = << >>
    /\ requested = {}

NoDiagnostics ==
    /\ diagnostics = << >>
    /\ initialDiagnostics = << >>
    /\ transformedDiagnostics = << >>
    /\ stack = << >>
    /\ bodyRuns = << >>
    /\ reentered = {}

Init ==
    /\ sourceFileDocument = SourceText
    /\ virtualFileDocument = GeneratedText
    /\ map \in SourceMaps
    /\ last \in Queries
    /\ files = {}
    /\ NoStore
    /\ NoDiagnostics

translatorFrame ==
    UNCHANGED << sourceFileDocument, virtualFileDocument, map, snapshot2Doc, version,
                 getTextCalls, requested, files, diagnostics, initialDiagnostics,
                 transformedDiagnostics, stack, bodyRuns, reentered >>

Answer(op, result, traced) ==
    /\ last.op = op
    /\ ~last.done
    /\ last' = [last EXCEPT !.done = TRUE, !.result = result, !.traced = traced]
    /\ translatorFrame

GetSourceRanges ==
    Answer("getSourceRanges", getSourceRanges(last.arg, last.filter),
           findRangesTraced(last.arg, last.filter,
                            "getSourcePositionsBase", "matchSourcePosition"))

GetGeneratedRanges ==
    Answer("getGeneratedRanges", getGeneratedRanges(last.arg, last.filter),
           findRangesTraced(last.arg, last.filter,
                            "getGeneratedPositionsBase", "matchGeneratedPosition"))

GetSourceRange ==
    Answer("getSourceRange", getSourceRange(last.arg, last.filter),
           First(findRangesTraced(last.arg, last.filter,
                                  "getSourcePositionsBase", "matchSourcePosition")))

GetGeneratedRange ==
    Answer("getGeneratedRange", getGeneratedRange(last.arg, last.filter),
           First(findRangesTraced(last.arg, last.filter,
                                  "getGeneratedPositionsBase", "matchGeneratedPosition")))

GetSourcePositions ==
    Answer("getSourcePositions", getSourcePositions(last.arg, last.filter),
           getSourcePositionsBase(last.arg, last.filter))

GetGeneratedPositions ==
    Answer("getGeneratedPositions", getGeneratedPositions(last.arg, last.filter),
           getGeneratedPositionsBase(last.arg, last.filter))

GetSourcePosition ==
    Answer("getSourcePosition", getSourcePosition(last.arg, last.filter),
           First(getSourcePositionsBase(last.arg, last.filter)))

GetGeneratedPosition ==
    Answer("getGeneratedPosition", getGeneratedPosition(last.arg, last.filter),
           First(getGeneratedPositionsBase(last.arg, last.filter)))

Next ==
    \/ GetSourceRanges
    \/ GetGeneratedRanges
    \/ GetSourceRange
    \/ GetGeneratedRange
    \/ GetSourcePositions
    \/ GetGeneratedPositions
    \/ GetSourcePosition
    \/ GetGeneratedPosition

Spec == Init /\ [][Next]_vars

----------------------------------------------------------------------------
(* Properties of the range and position queries *)

FromKey(op) == IF FromGenerated(op) THEN "generatedOffsets" ELSE "sourceOffsets"
ToKey(op) == IF FromGenerated(op) THEN "sourceOffsets" ELSE "generatedOffsets"
FromDoc(op) == IF FromGenerated(op) THEN virtualFileDocument ELSE sourceFileDocument
ToDoc(op) == IF FromGenerated(op) THEN sourceFileDocument ELSE virtualFileDocument

\* Segment k of mapping i contains offset o on the from side (bounds inclusive).
InSegment(op, i, k, o) ==
    /\ o >= map[i][FromKey(op)][k]
    /\ o <= map[i][FromKey(op)][k] + map[i].lengths[k]

Shift(op, i, k, o) == map[i][ToKey(op)][k] + (o - map[i][FromKey(op)][k])

Segments == { ik \in (1..Len(map)) \X (1..2) : ik[2] <= Len(map[ik[1]].lengths) }

Passing(f) == { i \in 1..Len(map) : filter(f, map[i].data) }

Translates(op, i, o) == \E k \in 1..Len(map[i].lengths) : InSegment(op, i, k, o)

RangeStart(q) == offsetAt(FromDoc(q.op), q.arg.start)
RangeEnd(q) == offsetAt(FromDoc(q.op), q.arg.end)

\* The query's range lies inside segment ik, whose mapping passes the query's filter.
Contained(q, ik) ==
    /\ ik[1] \in Passing(q.filter)
    /\ InSegment(q.op, ik[1], ik[2], RangeStart(q))
    /\ InSegment(q.op, ik[1], ik[2], RangeEnd(q))

ShiftedRange(q, ik) ==
    [start |-> positionAt(ToDoc(q.op), Shift(q.op, ik[1], ik[2], RangeStart(q))),
     end |-> positionAt(ToDoc(q.op), Shift(q.op, ik[1], ik[2], RangeEnd(q)))]

\* No other segment of a filter-passing mapping contains the range's start or end.
OnlySegment(q, ik) ==
    \A other \in Segments :
        (other # ik /\ other[1] \in Passing(q.filter)) =>
            /\ ~InSegment(q.op, other[1], other[2], RangeStart(q))
            /\ ~InSegment(q.op, other[1], other[2], RangeEnd(q))

SingleRangeAnswered == last.done /\ last.op \in {"getSourceRange", "getGeneratedRange"}

\* The non-empty range [start, end) lies within segment ik's half-open extent, and the
\* segment's mapping passes the query's filter.
ContainedHalfOpen(q, ik) ==
    /\ Contained(q, ik)
    /\ RangeStart(q) < RangeEnd(q)
    /\ RangeStart(q) < map[ik[1]][FromKey(q.op)][ik[2]] + map[ik[1]].lengths[ik[2]]

\* C1 (as stated): a range inside one segment that passes the filter is answered by the
\* exact linear shift through that segment, so the answer is as long as the range.
C1_ExactShiftAlways ==
    SingleRangeAnswered =>
        \A ik \in Segments :
            ContainedHalfOpen(last, ik) => last.result = << ShiftedRange(last, ik) >>

\* C1 (amended): a range inside one segment that passes the filter is answered from the
\* first loop, start and end both translated by one mapping: the first filter-passing
\* mapping that translates both ends of the range. The answer is the exact linear shift
\* through the segment when no other segment of a filter-passing mapping contains the
\* range's start or end.
C1_ExactRange ==
    SingleRangeAnswered =>
        \A ik \in Segments :
            Contained(last, ik) =>
                /\ Len(last.result) = 1
                /\ last.traced[1].loop = 1
                /\ last.traced[1].startMapping = last.traced[1].endMapping
                /\ LET both == { i \in Passing(last.filter) :
                                    /\ Translates(last.op, i, RangeStart(last))
                                    /\ Translates(last.op, i, RangeEnd(last)) }
                   IN  /\ last.traced[1].startMapping \in both
                       /\ \A i \in both : last.traced[1].startMapping <= i
                /\ OnlySegment(last, ik) => last.result = << ShiftedRange(last, ik) >>

\* The spec's example: source [0,3) through source [0,3) -> generated [1,4) is [1,4).
C1_Witness ==
    /\ last.done
    /\ last.op = "getGeneratedRange"
    /\ map = << Mapping(<<0>>, <<1>>, <<3>>, Full) >>
    /\ RangeStart(last) = 0
    /\ RangeEnd(last) = 3
    /\ Contained(last, <<1, 1>>)
    /\ last.result = << [start |-> positionAt(virtualFileDocument, 1),
                         end |-> positionAt(virtualFileDocument, 4)] >>

RangesAnswered == last.done /\ last.op \in {"getSourceRanges", "getGeneratedRanges"}

\* Filter-passing mappings that translate the range's start but not its end.
FailedStarts(q) ==
    { i \in Passing(q.filter) :
        Translates(q.op, i, RangeStart(q)) /\ ~Translates(q.op, i, RangeEnd(q)) }

\* Filter-passing mappings that translate the range's end.
EndCandidates(q) == { i \in Passing(q.filter) : Translates(q.op, i, RangeEnd(q)) }

\* The offset mapping i gives for offset o (through its first segment containing o).
ThroughOffset(op, i, o) ==
    LET k == CHOOSE k \in 1..Len(map[i].lengths) :
                /\ InSegment(op, i, k, o)
                /\ \A j \in 1..Len(map[i].lengths) : InSegment(op, i, j, o) => k <= j
    IN  Shift(op, i, k, o)

Through(op, i, o) == positionAt(ToDoc(op), ThroughOffset(op, i, o))

\* C2: boundary fallback. When a filter-passing mapping translates range.start but not
\* range.end, and some filter-passing mapping translates range.end, the ranges query is
\* not empty and holds, for each such start and each such end, the range pairing the
\* failed start's mapped position with the independently resolved end.
C2_BoundaryFallback ==
    RangesAnswered =>
        \A i \in FailedStarts(last) :
            EndCandidates(last) # {} =>
                /\ last.result # << >>
                /\ \A j \in EndCandidates(last) :
                    \E n \in 1..Len(last.result) :
                        /\ last.result[n] =
                              [start |-> Through(last.op, i, RangeStart(last)),
                               end |-> Through(last.op, j, RangeEnd(last))]
                        /\ last.traced[n].loop = 2

\* The spec's example: A source [0,2) -> generated [0,2), B source [5,7) -> generated
\* [3,5), generatedRanges([1,6)) pairs A's start 1 with B's end 4.
C2_Witness ==
    /\ last.done
    /\ last.op = "getGeneratedRanges"
    /\ last.filter = "all"
    /\ map = << Mapping(<<0>>, <<0>>, <<2>>, Full), Mapping(<<5>>, <<3>>, <<2>>, Full) >>
    /\ RangeStart(last) = 1
    /\ RangeEnd(last) = 6
    /\ FailedStarts(last) = {1}
    /\ last.result = << [start |-> positionAt(virtualFileDocument, 1),
                         end |-> positionAt(virtualFileDocument, 4)] >>

QueryAnswered == last.done /\ last.op \in RangeOps \cup PositionOps

\* C9: the capability filter is respected by every query. Each yielded position is the
\* translation through a mapping whose data passes the filter; start and end of each
\* yielded range, from the first loop or the fallback loop, are each the translation
\* through a mapping whose data passes the filter; a filter rejecting every mapping
\* empties every query.
C9_FilterRespected ==
    QueryAnswered =>
        /\ Len(last.traced) = Len(last.result)
        /\ last.op \in PositionOps =>
            \A n \in 1..Len(last.result) :
                LET i == last.traced[n].mapping
                    o == offsetAt(FromDoc(last.op), last.arg)
                IN  /\ filter(last.filter, map[i].data)
                    /\ Translates(last.op, i, o)
                    /\ last.result[n] = Through(last.op, i, o)
        /\ last.op \in RangeOps =>
            \A n \in 1..Len(last.result) :
                LET i == last.traced[n].startMapping
                    j == last.traced[n].endMapping
                IN  /\ filter(last.filter, map[i].data)
                    /\ filter(last.filter, map[j].data)
                    /\ Translates(last.op, i, RangeStart(last))
                    /\ Translates(last.op, j, RangeEnd(last))
                    /\ last.result[n] = [start |-> Through(last.op, i, RangeStart(last)),
                                         end |-> Through(last.op, j, RangeEnd(last))]
        /\ last.filter = "none" => last.result = << >>

\* A fallback range under a filter that rejects a mapping containing the range's end:
\* the rejected mapping contributes no end.
C9_Witness ==
    /\ last.done
    /\ last.op = "getGeneratedRanges"
    /\ last.filter = "verification"
    /\ last.result # << >>
    /\ last.traced[1].loop = 2
    /\ \E i \in 1..Len(map) :
        /\ ~filter(last.filter, map[i].data)
        /\ Translates(last.op, i, RangeEnd(last))
        /\ i < last.traced[1].endMapping

----------------------------------------------------------------------------
(* createDocumentProvider: the document store *)

NumSnapshots == 3
MaxDocuments == 3

Snapshots == 1..NumSnapshots
Uris == {"file:///a.vue", "file:///a.vue?virtualCodeId=ts"}
LanguageIds == {"vue", "typescript"}

\* snapshot.getText(0, snapshot.getLength()): snapshots 2 and up hold the same text.
getText(snapshot) == IF snapshot = 1 THEN "one" ELSE "same"

\* A store keyed by the snapshot's text instead of its identity.
snapshotKey_ByText(snapshot) ==
    CHOOSE s \in 1..snapshot :
        /\ getText(s) = getText(snapshot)
        /\ \A t \in 1..snapshot : getText(t) = getText(snapshot) => s <= t

\* The WeakMap key of a snapshot: the object itself.
snapshotKey(snapshot) == snapshot

TextDocumentCreate(uri, languageId, v, text) ==
    [uri |-> uri, languageId |-> languageId, version |-> v, text |-> text]

InitStore ==
    /\ sourceFileDocument = SourceText
    /\ virtualFileDocument = GeneratedText
    /\ map = << >>
    /\ last = [op |-> "none"]
    /\ files = {}
    /\ NoStore
    /\ NoDiagnostics

\* get(uri, languageId, snapshot)
Get(uri, languageId, snapshot) ==
    LET key == snapshotKey(snapshot)
        withSnapshot == IF key \in DOMAIN snapshot2Doc THEN snapshot2Doc
                        ELSE snapshot2Doc @@ (key :> << >>)
        miss == uri \notin DOMAIN withSnapshot[key]
        created == TextDocumentCreate(uri, languageId, version, getText(snapshot))
        withDocument == IF miss
                        THEN [withSnapshot EXCEPT ![key] = @ @@ (uri :> created)]
                        ELSE withSnapshot
    IN  /\ miss => version < MaxDocuments
        /\ snapshot2Doc' = withDocument
        /\ version' = IF miss THEN version + 1 ELSE version
        /\ getTextCalls' =
              IF ~miss THEN getTextCalls
              ELSE IF <<snapshot, uri>> \in DOMAIN getTextCalls
                   THEN [getTextCalls EXCEPT ![<<snapshot, uri>>] = @ + 1]
                   ELSE getTextCalls @@ (<<snapshot, uri>> :> 1)
        /\ requested' = requested \cup {<<snapshot, uri>>}
        /\ last' = [op |-> "get", uri |-> uri, snapshot |-> snapshot,
                    returned |-> withDocument[key][uri]]
        /\ UNCHANGED << sourceFileDocument, virtualFileDocument, map, files, diagnostics,
                        initialDiagnostics, transformedDiagnostics, stack, bodyRuns,
                        reentered >>

NextStore ==
    \E uri \in Uris, languageId \in LanguageIds, snapshot \in Snapshots :
        Get(uri, languageId, snapshot)

SpecStore == InitStore /\ [][NextStore]_vars

StoredPairs ==
    { su \in (DOMAIN snapshot2Doc) \X Uris : su[2] \in DOMAIN snapshot2Doc[su[1]] }

\* C3: after any sequence of get calls there is exactly one Document per requested
\* (snapshot identity, uri) pair: the store holds the requested pairs and no others,
\* distinct pairs hold distinct instances, also for snapshots of equal text, getText was
\* read exactly once for each pair, and a call returns the instance stored for its pair.
C3_OneDocumentPerPair ==
    /\ StoredPairs = requested
    /\ DOMAIN getTextCalls = requested
    /\ \A su \in requested : getTextCalls[su] = 1
    /\ \A su \in StoredPairs : snapshot2Doc[su[1]][su[2]].text = getText(su[1])
    /\ \A su \in StoredPairs : \A tv \in StoredPairs :
          su # tv => snapshot2Doc[su[1]][su[2]].version # snapshot2Doc[tv[1]][tv[2]].version
    /\ version = Cardinality(requested)
    /\ last.op = "get" => last.returned = snapshot2Doc[last.snapshot][last.uri]

\* Snapshots 2 and 3 hold the same text and were requested under the same uri: two
\* instances; the last call was a repeat and returned the earlier instance.
C3_Witness ==
    /\ last.op = "get"
    /\ \E uri \in Uris :
        /\ {<<2, uri>>, <<3, uri>>} \subseteq requested
        /\ snapshot2Doc[2][uri].version # snapshot2Doc[3][uri].version
        /\ snapshot2Doc[2][uri].text = snapshot2Doc[3][uri].text
    /\ last.returned.version < version - 1

----------------------------------------------------------------------------
(* typescript/lib/node/transform.ts: spans *)

\* [virtualCode, sourceFile, map] for a file registered as a generated document, all
\* undefined otherwise; the map is the variable of that name.
getVirtualFileAndMap(fileName) ==
    IF fileName \in files
    THEN [virtualCode |-> << "ts" >>,
          sourceFile |-> << [snapshotLength |-> sourceFileDocument.len] >>]
    ELSE [virtualCode |-> << >>, sourceFile |-> << >>]

\* transformRange accepting an end that lies before the start.
transformRange_AnyEnd(sourceFile, start, end, f) ==
    LET starts == getSourceOffsets(start - sourceFile.snapshotLength)
        ends == getSourceOffsets(end - sourceFile.snapshotLength)
        pairs == Flatten([ a \in 1..Len(starts) |->
            IF ~filter(f, map[starts[a].mapping].data) THEN << >>
            ELSE Flatten([ b \in 1..Len(ends) |->
                IF filter(f, map[ends[b].mapping].data)
                THEN << << starts[a].offset, ends[b].offset >> >>
                ELSE << >> ]) ])
    IN  First(pairs)

\* The first [sourceStart, sourceEnd] in loop order: start candidates outside, end
\* candidates inside.
transformRange(sourceFile, start, end, f) ==
    LET starts == getSourceOffsets(start - sourceFile.snapshotLength)
        ends == getSourceOffsets(end - sourceFile.snapshotLength)
        pairs == Flatten([ a \in 1..Len(starts) |->
            IF ~filter(f, map[starts[a].mapping].data) THEN << >>
            ELSE Flatten([ b \in 1..Len(ends) |->
                IF ends[b].offset >= starts[a].offset /\ filter(f, map[ends[b].mapping].data)
                THEN << << starts[a].offset, ends[b].offset >> >>
                ELSE << >> ]) ])
    IN  First(pairs)

TextSpan(start, length) == [start |-> start, length |-> length]

\* fileName and textSpan are optional.
transformSpan(fileName, textSpan, f) ==
    IF fileName = << >> THEN << >>
    ELSE IF textSpan = << >> THEN << >>
    ELSE LET found == getVirtualFileAndMap(fileName[1])
         IN  IF found.virtualCode # << >>
             THEN LET sourceRange == transformRange(found.sourceFile[1], textSpan[1].start,
                                         textSpan[1].start + textSpan[1].length, f)
                  IN  IF sourceRange # << >>
                      THEN << [fileName |-> fileName[1],
                               textSpan |-> TextSpan(sourceRange[1][1],
                                                     sourceRange[1][2] - sourceRange[1][1])] >>
                      ELSE << >>
             ELSE << [fileName |-> fileName[1], textSpan |-> textSpan[1]] >>

\* x?.textSpan
textSpanOf(x) == IF x = << >> THEN << >> ELSE << x[1].textSpan >>

\* x?.fileName
fileNameOf(x) == IF x = << >> THEN << >> ELSE << x[1].fileName >>

\* x ?? { start: 0, length: 0 }
orZeroSpan(x) == IF x = << >> THEN TextSpan(0, 0) ELSE x[1]

\* transformCallHierarchyItem taking the selection span's fallback from the whole span.
transformCallHierarchyItem_SharedSpan(item, f) ==
    LET span == transformSpan(<< item.file >>, << item.span >>, f)
        selectionSpan == transformSpan(<< item.file >>, << item.selectionSpan >>, f)
    IN  [item EXCEPT !.span = orZeroSpan(textSpanOf(span)),
                     !.selectionSpan =
                        IF selectionSpan = << >> THEN orZeroSpan(textSpanOf(span))
                        ELSE selectionSpan[1].textSpan]

transformCallHierarchyItem(item, f) ==
    LET span == transformSpan(<< item.file >>, << item.span >>, f)
        selectionSpan == transformSpan(<< item.file >>, << item.selectionSpan >>, f)
    IN  [item EXCEPT !.span = orZeroSpan(textSpanOf(span)),
                     !.selectionSpan = orZeroSpan(textSpanOf(selectionSpan))]

\* transformFileTextChanges keeping an unmappable edit at a zero-length span.
transformFileTextChanges_Fallback(changes, f) ==
    LET source == getVirtualFileAndMap(changes.fileName).sourceFile
    IN  IF source # << >>
        THEN << [changes EXCEPT !.textChanges =
                    [ n \in 1..Len(changes.textChanges) |->
                        LET c == changes.textChanges[n]
                            span == transformSpan(<< changes.fileName >>, << c.span >>, f)
                        IN  [c EXCEPT !.span = orZeroSpan(textSpanOf(span))] ]] >>
        ELSE << changes >>

transformFileTextChanges(changes, f) ==
    LET source == getVirtualFileAndMap(changes.fileName).sourceFile
    IN  IF source # << >>
        THEN << [changes EXCEPT !.textChanges =
                    Flatten([ n \in 1..Len(changes.textChanges) |->
                        LET c == changes.textChanges[n]
                            span == transformSpan(<< changes.fileName >>, << c.span >>, f)
                        IN  IF span # << >>
                            THEN << [c EXCEPT !.span = span[1].textSpan] >>
                            ELSE << >> ])] >>
        ELSE << changes >>

\* transformDocumentSpan dropping the result when the context span cannot be mapped.
transformDocumentSpan_StrictContext(documentSpan, f, shouldFallback) ==
    LET first == transformSpan(<< documentSpan.fileName >>, << documentSpan.textSpan >>, f)
        textSpan ==
            IF first = << >> /\ shouldFallback = << TRUE >>
               /\ getVirtualFileAndMap(documentSpan.fileName).virtualCode # << >>
            THEN << [fileName |-> documentSpan.fileName, textSpan |-> TextSpan(0, 0)] >>
            ELSE first
        contextSpan == transformSpan(<< documentSpan.fileName >>, documentSpan.contextSpan, f)
        originalTextSpan == transformSpan(documentSpan.originalFileName,
                                          documentSpan.originalTextSpan, f)
        originalContextSpan == transformSpan(documentSpan.originalFileName,
                                             documentSpan.originalContextSpan, f)
    IN  IF textSpan = << >> \/ (documentSpan.contextSpan # << >> /\ contextSpan = << >>)
        THEN << >>
        ELSE << [documentSpan EXCEPT
                    !.fileName = textSpan[1].fileName,
                    !.textSpan = textSpan[1].textSpan,
                    !.contextSpan = textSpanOf(contextSpan),
                    !.originalFileName = fileNameOf(originalTextSpan),
                    !.originalTextSpan = textSpanOf(originalTextSpan),
                    !.originalContextSpan = textSpanOf(originalContextSpan)] >>

\* shouldFallback is optional.
transformDocumentSpan(documentSpan, f, shouldFallback) ==
    LET first == transformSpan(<< documentSpan.fileName >>, << documentSpan.textSpan >>, f)
        textSpan ==
            IF first = << >> /\ shouldFallback = << TRUE >>
               /\ getVirtualFileAndMap(documentSpan.fileName).virtualCode # << >>
            THEN << [fileName |-> documentSpan.fileName, textSpan |-> TextSpan(0, 0)] >>
            ELSE first
        contextSpan == transformSpan(<< documentSpan.fileName >>, documentSpan.contextSpan, f)
        originalTextSpan == transformSpan(documentSpan.originalFileName,
                                          documentSpan.originalTextSpan, f)
        originalContextSpan == transformSpan(documentSpan.originalFileName,
                                             documentSpan.originalContextSpan, f)
    IN  IF textSpan = << >> THEN << >>
        ELSE << [documentSpan EXCEPT
                    !.fileName = textSpan[1].fileName,
                    !.textSpan = textSpan[1].textSpan,
                    !.contextSpan = textSpanOf(contextSpan),
                    !.originalFileName = fileNameOf(originalTextSpan),
                    !.originalTextSpan = textSpanOf(originalTextSpan),
                    !.originalContextSpan = textSpanOf(originalContextSpan)] >>

----------------------------------------------------------------------------
(* Transform calls: Init draws the registry, the mappings and the call, the action runs it *)

MaxEdits == 3

FileNames == {"a.vue", "b.ts"}

\* a.vue is registered with generated code, b.ts is a plain source file.
Registry == {"a.vue"}

TransformMaps ==
    { << Mapping(<<0>>, <<1>>, <<3>>, Full) >>,
      << Mapping(<<0>>, <<0>>, <<2>>, Full), Mapping(<<5>>, <<3>>, <<2>>, NavigationOnly) >>,
      << Mapping(<<5, 0>>, <<0, 3>>, <<2, 2>>, Full) >>,
      << Mapping(<<5>>, <<3>>, <<2>>, Full),
         Mapping(<<0, 2>>, <<0, 3>>, <<2, 3>>, VerificationOnly) >> }

\* Spans in the coordinates the analysis engine reports for a.vue: the generated text
\* follows the source text, so generated offset g is reported as SourceText.len + g.
GeneratedSpans ==
    { TextSpan(SourceText.len + ab[1], ab[2] - ab[1]) :
        ab \in { ab \in (0..GeneratedText.len) \X (0..GeneratedText.len) : ab[1] <= ab[2] } }

Spans == GeneratedSpans \cup { TextSpan(0, 2) }

KeySpans == { TextSpan(SourceText.len, 3), TextSpan(SourceText.len + 1, 3),
              TextSpan(SourceText.len + GeneratedText.len, 0), TextSpan(0, 2) }

ContextSpans == { TextSpan(SourceText.len + 1, 1),
                  TextSpan(SourceText.len + GeneratedText.len, 0) }

Optional(S) == { << >> } \cup { << x >> : x \in S }

DocumentSpans ==
    [ fileName : FileNames,
      textSpan : KeySpans,
      contextSpan : Optional(ContextSpans),
      originalFileName : Optional(FileNames),
      originalTextSpan : Optional(ContextSpans),
      originalContextSpan : Optional(ContextSpans),
      kind : {"definition"} ]

TextChanges ==
    { [newText |-> "a", span |-> TextSpan(SourceText.len, 2)],
      [newText |-> "b", span |-> TextSpan(SourceText.len + 1, 3)],
      [newText |-> "c", span |-> TextSpan(SourceText.len + GeneratedText.len, 0)],
      [newText |-> "d", span |-> TextSpan(SourceText.len + 4, 1)] }

FileTextChanges ==
    [ fileName : FileNames,
      textChanges : UNION { [1..n -> TextChanges] : n \in 0..MaxEdits },
      isNewFile : {FALSE} ]

CallHierarchyItems ==
    [ file : FileNames, span : Spans, selectionSpan : KeySpans, name : {"f"} ]

TransformCalls ==
    { [op |-> "transformSpan", fileName |-> n, textSpan |-> t, filter |-> f,
       done |-> FALSE, result |-> << >>] :
        n \in Optional(FileNames), t \in Optional(Spans), f \in Filters }
    \cup
    { [op |-> "transformDocumentSpan", documentSpan |-> d, filter |-> f,
       shouldFallback |-> b, done |-> FALSE, result |-> << >>] :
        d \in DocumentSpans, f \in Filters, b \in Optional(BOOLEAN) }
    \cup
    { [op |-> "transformFileTextChanges", changes |-> c, filter |-> f,
       done |-> FALSE, result |-> << >>] :
        c \in FileTextChanges, f \in Filters }
    \cup
    { [op |-> "transformCallHierarchyItem", item |-> i, filter |-> f,
       done |-> FALSE, result |-> << >>] :
        i \in CallHierarchyItems, f \in Filters }

InitTransform ==
    /\ sourceFileDocument = SourceText
    /\ virtualFileDocument = GeneratedText
    /\ map \in TransformMaps
    /\ files = Registry
    /\ last \in TransformCalls
    /\ NoStore
    /\ NoDiagnostics

Return(op, result) ==
    /\ last.op = op
    /\ ~last.done
    /\ last' = [last EXCEPT !.done = TRUE, !.result = result]
    /\ translatorFrame

TransformSpan ==
    Return("transformSpan", transformSpan(last.fileName, last.textSpan, last.filter))

TransformDocumentSpan ==
    Return("transformDocumentSpan",
           transformDocumentSpan(last.documentSpan, last.filter, last.shouldFallback))

TransformFileTextChanges ==
    Return("transformFileTextChanges", transformFileTextChanges(last.changes, last.filter))

TransformCallHierarchyItem ==
    Return("transformCallHierarchyItem",
           << transformCallHierarchyItem(last.item, last.filter) >>)

NextTransform ==
    \/ TransformSpan
    \/ TransformDocumentSpan
    \/ TransformFileTextChanges
    \/ TransformCallHierarchyItem

SpecTransform == InitTransform /\ [][NextTransform]_vars

----------------------------------------------------------------------------
(* Properties of the span transforms *)

Answered(op) == last.op = op /\ last.done

\* A span's ends as offsets into the generated text.
GeneratedStart(span) == span.start - sourceFileDocument.len
GeneratedEnd(span) == span.start + span.length - sourceFileDocument.len

\* Pairs <<i, j>> of filter-passing mappings, i translating the span's start and j its
\* end to source offsets, the end not before the start.
MappedPairs(span, f) ==
    { ij \in Passing(f) \X Passing(f) :
        /\ Translates("getSourceRange", ij[1], GeneratedStart(span))
        /\ Translates("getSourceRange", ij[2], GeneratedEnd(span))
        /\ ThroughOffset("getSourceRange", ij[2], GeneratedEnd(span))
              >= ThroughOffset("getSourceRange", ij[1], GeneratedStart(span)) }

\* The source span of the first pair: start mappings in declaration order, then end
\* mappings in declaration order.
MappedSpan(span, f) ==
    LET pairs == MappedPairs(span, f)
        ij == CHOOSE p \in pairs :
                \A q \in pairs : p[1] < q[1] \/ (p[1] = q[1] /\ p[2] <= q[2])
        from == ThroughOffset("getSourceRange", ij[1], GeneratedStart(span))
        to == ThroughOffset("getSourceRange", ij[2], GeneratedEnd(span))
    IN  TextSpan(from, to - from)

\* What a span of the named file resolves to: itself in a plain file, its mapped span or
\* nothing in a generated one.
Resolved(fileName, span, f) ==
    IF fileName \notin files THEN << span >>
    ELSE IF MappedPairs(span, f) = {} THEN << >>
    ELSE << MappedSpan(span, f) >>

\* An optional span of an optional file.
ResolvedOptional(fileName, span, f) ==
    IF fileName = << >> \/ span = << >> THEN << >> ELSE Resolved(fileName[1], span[1], f)

\* sourceRange asked for the span's ends as positions of the generated document, its
\* answer converted back to a span of source offsets.
SourceRangeOfSpan(span, f) ==
    LET range == getSourceRange(
                    [start |-> positionAt(virtualFileDocument, GeneratedStart(span)),
                     end |-> positionAt(virtualFileDocument, GeneratedEnd(span))], f)
    IN  IF range = << >> THEN << >>
        ELSE << TextSpan(offsetAt(sourceFileDocument, range[1].start),
                         offsetAt(sourceFileDocument, range[1].end)
                             - offsetAt(sourceFileDocument, range[1].start)) >>

Registered(fileName) == fileName # << >> /\ fileName[1] \in files

\* C5 (as stated): for a span of a registered generated document, transformSpan returns
\* what sourceRange gives for the span's start and end under the same filter, and
\* nothing exactly when sourceRange yields nothing.
C5_SameAsSourceRange ==
    (Answered("transformSpan") /\ Registered(last.fileName)
        /\ last.textSpan # << >> /\ last.textSpan[1] \in GeneratedSpans) =>
        textSpanOf(last.result) = SourceRangeOfSpan(last.textSpan[1], last.filter)

\* C5 (amended): transformSpan returns the (fileName, span) pair unchanged when the file
\* is not a registered generated document. Otherwise it looks up both ends of the span,
\* each at its offset less the source text's length, and returns the first pair of
\* filter-passing source offsets whose end is not before its start (start mappings in
\* declaration order, then end mappings in declaration order), and nothing exactly when
\* there is no such pair. That is sourceRange's answer when at most one filter-passing
\* mapping translates each end and sourceRange's end is not before its start.
C5_TransformSpan ==
    Answered("transformSpan") =>
        /\ (last.fileName = << >> \/ last.textSpan = << >>) => last.result = << >>
        /\ (last.fileName # << >> /\ last.textSpan # << >>) =>
            LET span == last.textSpan[1]
                pairs == MappedPairs(span, last.filter)
                starts == { i \in Passing(last.filter) :
                              Translates("getSourceRange", i, GeneratedStart(span)) }
                ends == { j \in Passing(last.filter) :
                              Translates("getSourceRange", j, GeneratedEnd(span)) }
                viaRange == SourceRangeOfSpan(span, last.filter)
            IN  /\ ~Registered(last.fileName) =>
                    last.result = << [fileName |-> last.fileName[1], textSpan |-> span] >>
                /\ Registered(last.fileName) =>
                    /\ (last.result = << >>) <=> (pairs = {})
                    /\ pairs # {} =>
                        last.result = << [fileName |-> last.fileName[1],
                                          textSpan |-> MappedSpan(span, last.filter)] >>
                    /\ (/\ span \in GeneratedSpans
                        /\ Cardinality(starts) <= 1
                        /\ Cardinality(ends) <= 1
                        /\ viaRange # << >>
                        /\ viaRange[1].length >= 0) =>
                            textSpanOf(last.result) = viaRange

\* A span of a.vue with more than one candidate pair, mapped to a non-empty source span.
C5_Witness ==
    /\ Answered("transformSpan")
    /\ Registered(last.fileName)
    /\ last.textSpan # << >>
    /\ Cardinality(MappedPairs(last.textSpan[1], last.filter)) > 1
    /\ last.result # << >>
    /\ last.result[1].textSpan.length > 0
    /\ last.result[1].textSpan.start > 0

\* C6: transformDocumentSpan on a span of a generated document whose primary textSpan
\* cannot be mapped returns nothing unless shouldFallback is true, and with shouldFallback
\* true returns a result whose textSpan is {start: 0, length: 0}. Once the primary span
\* is settled, the context, original and original-context spans never drop the result:
\* one that cannot be resolved is left undefined, the others hold their resolved spans.
C6_DocumentSpanFallback ==
    (Answered("transformDocumentSpan") /\ last.documentSpan.fileName \in files) =>
        LET d == last.documentSpan
            primary == MappedPairs(d.textSpan, last.filter) # {}
            fallback == last.shouldFallback = << TRUE >>
        IN  /\ (~primary /\ ~fallback) => last.result = << >>
            /\ (~primary /\ fallback) =>
                /\ last.result # << >>
                /\ last.result[1].textSpan = TextSpan(0, 0)
            /\ primary =>
                /\ last.result # << >>
                /\ last.result[1].textSpan = MappedSpan(d.textSpan, last.filter)
            /\ last.result # << >> =>
                /\ last.result[1].fileName = d.fileName
                /\ last.result[1].kind = d.kind
                /\ last.result[1].contextSpan =
                      ResolvedOptional(<< d.fileName >>, d.contextSpan, last.filter)
                /\ last.result[1].originalTextSpan =
                      ResolvedOptional(d.originalFileName, d.originalTextSpan, last.filter)
                /\ last.result[1].originalContextSpan =
                      ResolvedOptional(d.originalFileName, d.originalContextSpan, last.filter)

\* Fallback taken: the primary span and the context span of a.vue both fail to map, the
\* result stands at {0, 0} with its context span undefined.
C6_Witness ==
    /\ Answered("transformDocumentSpan")
    /\ last.documentSpan.fileName \in files
    /\ MappedPairs(last.documentSpan.textSpan, last.filter) = {}
    /\ last.shouldFallback = << TRUE >>
    /\ last.documentSpan.contextSpan # << >>
    /\ last.documentSpan.originalTextSpan # << >>
    /\ last.filter # "none"
    /\ last.result # << >>
    /\ last.result[1].textSpan = TextSpan(0, 0)
    /\ last.result[1].contextSpan = << >>
    /\ last.result[1].originalTextSpan # << >>

\* The edits of a batch whose span maps under the filter.
Mappable(changes, f) ==
    { n \in 1..Len(changes.textChanges) : MappedPairs(changes.textChanges[n].span, f) # {} }

\* C7: transformFileTextChanges on a batch for a generated document outputs exactly the
\* edits whose span maps under the filter, in their original relative order, each with
\* the input edit's newText and the mapped span; unmappable edits are dropped, none is
\* kept at a fallback span; the batch's other fields are copied.
C7_EditBatchFiltering ==
    (Answered("transformFileTextChanges") /\ last.changes.fileName \in files) =>
        LET in == last.changes.textChanges
            keep == Mappable(last.changes, last.filter)
        IN  /\ Len(last.result) = 1
            /\ last.result[1].fileName = last.changes.fileName
            /\ last.result[1].isNewFile = last.changes.isNewFile
            /\ Len(last.result[1].textChanges) = Cardinality(keep)
            /\ \A n \in keep :
                LET m == Cardinality({ k \in keep : k <= n })
                IN  /\ last.result[1].textChanges[m].newText = in[n].newText
                    /\ last.result[1].textChanges[m].span =
                          MappedSpan(in[n].span, last.filter)

\* Three edits, the middle one unmappable: the output holds the first and the third.
C7_Witness ==
    /\ Answered("transformFileTextChanges")
    /\ last.changes.fileName \in files
    /\ Len(last.changes.textChanges) = 3
    /\ Mappable(last.changes, last.filter) = {1, 3}
    /\ Len(last.result[1].textChanges) = 2
    /\ last.result[1].textChanges[1].newText = last.changes.textChanges[1].newText
    /\ last.result[1].textChanges[2].newText = last.changes.textChanges[3].newText
    /\ last.changes.textChanges[1].newText # last.changes.textChanges[3].newText
    /\ last.result[1].textChanges[2].span # last.changes.textChanges[3].span

\* C8: transformCallHierarchyItem always returns an item. span and selectionSpan are
\* resolved independently, each one that fails to map becomes {start: 0, length: 0}
\* whatever the other does, and the item's other fields are copied.
C8_CallHierarchyItemKept ==
    Answered("transformCallHierarchyItem") =>
        /\ Len(last.result) = 1
        /\ last.result[1].file = last.item.file
        /\ last.result[1].name = last.item.name
        /\ last.result[1].span =
              orZeroSpan(Resolved(last.item.file, last.item.span, last.filter))
        /\ last.result[1].selectionSpan =
              orZeroSpan(Resolved(last.item.file, last.item.selectionSpan, last.filter))

\* The selection span of an item of a.vue fails to map while its span maps elsewhere.
C8_Witness ==
    /\ Answered("transformCallHierarchyItem")
    /\ last.item.file \in files
    /\ MappedPairs(last.item.selectionSpan, last.filter) = {}
    /\ MappedPairs(last.item.span, last.filter) # {}
    /\ last.result[1].selectionSpan = TextSpan(0, 0)
    /\ last.result[1].span # TextSpan(0, 0)
    /\ last.result[1].span # last.item.span

----------------------------------------------------------------------------
(* typescript/lib/node/transform.ts: transformDiagnostic *)

NumDiagnostics == 2
MaxRelated == 1

\* The diagnostics the analysis engine hands over; the objects transformDiagnostic
\* creates get the identities above NumDiagnostics.
Diagnostics == 1..NumDiagnostics

DiagnosticMap ==
    << Mapping(<<0>>, <<1>>, <<3>>, Full), Mapping(<<5>>, <<3>>, <<2>>, NavigationOnly) >>

\* No file; a plain source file; a.vue at a span that maps for diagnostics; a.vue at a
\* span whose end only a mapping without verification translates.
DiagnosticSpans ==
    << [file |-> << >>, start |-> << >>, length |-> << >>],
       [file |-> << "b.ts" >>, start |-> << 3 >>, length |-> << 2 >>],
       [file |-> << "a.vue" >>, start |-> << SourceText.len + 1 >>, length |-> << 2 >>],
       [file |-> << "a.vue" >>, start |-> << SourceText.len + 3 >>, length |-> << 2 >>] >>

RelatedLists == UNION { [1..n -> Diagnostics] : n \in 0..MaxRelated }

\* Diagnostic identities are interchangeable: the spans are drawn in non-decreasing
\* order of identity.
DiagnosticHeaps ==
    { [ d \in Diagnostics |->
          [file |-> DiagnosticSpans[spans[d]].file,
           start |-> DiagnosticSpans[spans[d]].start,
           length |-> DiagnosticSpans[spans[d]].length,
           relatedInformation |-> related[d],
           code |-> d] ] :
        spans \in { sp \in [Diagnostics -> 1..Len(DiagnosticSpans)] :
                      \A d \in Diagnostics : \A e \in Diagnostics : d <= e => sp[d] <= sp[e] },
        related \in [Diagnostics -> Optional(RelatedLists)] }

\* WeakMap.has / get / set
has(memo, diagnostic) == diagnostic \in DOMAIN memo

get(memo, diagnostic) == memo[diagnostic]

set(memo, diagnostic, value) ==
    [ d \in DOMAIN memo \cup {diagnostic} |-> IF d = diagnostic THEN value ELSE memo[d] ]

\* transformDiagnostic entered without reserving the memo slot.
reserve_Skipped(memo, diagnostic) == memo

\* transformedDiagnostics.set(diagnostic, undefined)
reserve(memo, diagnostic) == set(memo, diagnostic, << >>)

\* .filter(notEmpty)
notEmpty(mapped) == Flatten(mapped)

Frame(diagnostic) ==
    [diagnostic |-> diagnostic,
     relatedInformation |-> diagnostics[diagnostic].relatedInformation,
     index |-> 1,
     mapped |-> << >>]

Top == stack[Len(stack)]

OnStack(diagnostic) == \E p \in 1..Len(stack) : stack[p].diagnostic = diagnostic

InitDiagnostics ==
    /\ sourceFileDocument = SourceText
    /\ virtualFileDocument = GeneratedText
    /\ map = DiagnosticMap
    /\ files = Registry
    /\ last = [op |-> "none"]
    /\ NoStore
    /\ diagnostics \in DiagnosticHeaps
    /\ initialDiagnostics = diagnostics
    /\ transformedDiagnostics = << >>
    /\ stack = << >>
    /\ bodyRuns = [d \in Diagnostics |-> 0]
    /\ reentered = {}

diagnosticFrame ==
    UNCHANGED << sourceFileDocument, virtualFileDocument, map, files, snapshot2Doc,
                 version, getTextCalls, requested, initialDiagnostics >>

\* A caller invokes transformDiagnostic on a diagnostic with no memo entry: the slot is
\* reserved and the body starts.
Call(diagnostic) ==
    /\ stack = << >>
    /\ ~has(transformedDiagnostics, diagnostic)
    /\ transformedDiagnostics' = reserve(transformedDiagnostics, diagnostic)
    /\ stack' = << Frame(diagnostic) >>
    /\ bodyRuns' = [bodyRuns EXCEPT ![diagnostic] = @ + 1]
    /\ last' = [op |-> "transformDiagnostic", diagnostic |-> diagnostic, done |-> FALSE,
                returned |-> << >>]
    /\ UNCHANGED << diagnostics, reentered >>
    /\ diagnosticFrame

\* A caller invokes transformDiagnostic on a diagnostic with a memo entry.
CallMemoized(diagnostic) ==
    /\ stack = << >>
    /\ has(transformedDiagnostics, diagnostic)
    /\ last' = [op |-> "transformDiagnostic", diagnostic |-> diagnostic, done |-> TRUE,
                returned |-> get(transformedDiagnostics, diagnostic)]
    /\ UNCHANGED << diagnostics, transformedDiagnostics, stack, bodyRuns, reentered >>
    /\ diagnosticFrame

Pending ==
    /\ stack # << >>
    /\ Top.relatedInformation # << >>
    /\ Top.index <= Len(Top.relatedInformation[1])

\* The map callback recurses into a related diagnostic with no memo entry.
Descend ==
    /\ Pending
    /\ LET d == Top.relatedInformation[1][Top.index]
       IN  /\ ~has(transformedDiagnostics, d)
           /\ transformedDiagnostics' = reserve(transformedDiagnostics, d)
           /\ stack' = Append(stack, Frame(d))
           /\ bodyRuns' = [bodyRuns EXCEPT ![d] = @ + 1]
    /\ UNCHANGED << diagnostics, last, reentered >>
    /\ diagnosticFrame

\* The map callback gets a related diagnostic's memo entry.
Memoized ==
    /\ Pending
    /\ LET d == Top.relatedInformation[1][Top.index]
       IN  /\ has(transformedDiagnostics, d)
           /\ stack' = [stack EXCEPT ![Len(stack)] =
                           [@ EXCEPT !.index = @ + 1,
                                     !.mapped = Append(@, get(transformedDiagnostics, d))]]
           /\ reentered' = IF OnStack(d)
                           THEN reentered \cup { << Top.diagnostic, Top.index >> }
                           ELSE reentered
    /\ UNCHANGED << diagnostics, transformedDiagnostics, bodyRuns, last >>
    /\ diagnosticFrame

\* The heap after the body's assignment to diagnostic.relatedInformation.
relatedAssigned(frame) ==
    IF frame.relatedInformation # << >>
    THEN [diagnostics EXCEPT
            ![frame.diagnostic].relatedInformation = << notEmpty(frame.mapped) >>]
    ELSE diagnostics

\* The body's second half on diagnostic object own of identity d: the new heap and memo.
ownSpan(heap, memo, d, own) ==
    IF own.file # << >> /\ own.start # << >> /\ own.length # << >>
    THEN LET found == getVirtualFileAndMap(own.file[1])
         IN  IF found.virtualCode # << >>
             THEN LET sourceRange == transformRange(found.sourceFile[1], own.start[1],
                                         own.start[1] + own.length[1],
                                         shouldReportDiagnostics)
                  IN  IF sourceRange # << >>
                      THEN [heap |-> heap @@ ((NumDiagnostics + d) :>
                                        [own EXCEPT
                                            !.start = << sourceRange[1][1] >>,
                                            !.length = << sourceRange[1][2]
                                                            - sourceRange[1][1] >>]),
                            memo |-> set(memo, d, << NumDiagnostics + d >>)]
                      ELSE [heap |-> heap, memo |-> memo]
             ELSE [heap |-> heap, memo |-> set(memo, d, << d >>)]
    ELSE [heap |-> heap, memo |-> set(memo, d, << d >>)]

\* The stack and the caller's record once the top activation returns value.
returnTo(value) ==
    IF Len(stack) = 1
    THEN [stack |-> << >>,
          last |-> [last EXCEPT !.done = TRUE, !.returned = value]]
    ELSE [stack |-> [SubSeq(stack, 1, Len(stack) - 1) EXCEPT ![Len(stack) - 1] =
                        [@ EXCEPT !.index = @ + 1, !.mapped = Append(@, value)]],
          last |-> last]

\* The related diagnostics are done: the body assigns diagnostic.relatedInformation,
\* transforms the diagnostic's own span, and returns the memo entry.
Finish ==
    /\ stack # << >>
    /\ ~Pending
    /\ \E heap \in { relatedAssigned(Top) } :
       \E after \in { ownSpan(heap, transformedDiagnostics, Top.diagnostic,
                              heap[Top.diagnostic]) } :
       \E back \in { returnTo(get(after.memo, Top.diagnostic)) } :
          /\ diagnostics' = after.heap
          /\ transformedDiagnostics' = after.memo
          /\ stack' = back.stack
          /\ last' = back.last
    /\ UNCHANGED << bodyRuns, reentered >>
    /\ diagnosticFrame

Running == Descend \/ Memoized \/ Finish

NextDiagnostics ==
    \/ \E diagnostic \in Diagnostics : Call(diagnostic)
    \/ \E diagnostic \in Diagnostics : CallMemoized(diagnostic)
    \/ Descend
    \/ Memoized
    \/ Finish

SpecDiagnostics == InitDiagnostics /\ [][NextDiagnostics]_vars

----------------------------------------------------------------------------
(* Properties of transformDiagnostic *)

Completed(d) == has(transformedDiagnostics, d) /\ ~OnStack(d)

\* The occurrences in frame p's list, before its index, of a diagnostic whose body was
\* running when the occurrence was read.
ReentrantBefore(p) ==
    { j \in 1..(stack[p].index - 1) :
        \E q \in 1..p : stack[q].diagnostic = stack[p].relatedInformation[1][j] }

ReenteredIn(d) == { pair \in reentered : pair[1] = d }

MemoDiscipline ==
    /\ \A d \in Diagnostics : bodyRuns[d] <= 1
    /\ \A p \in 1..Len(stack) :
          /\ has(transformedDiagnostics, stack[p].diagnostic)
          /\ get(transformedDiagnostics, stack[p].diagnostic) = << >>
          /\ \A j \in ReentrantBefore(p) : stack[p].mapped[j] = << >>
    /\ \A d \in Diagnostics :
          Completed(d) /\ initialDiagnostics[d].relatedInformation # << >> =>
             /\ diagnostics[d].relatedInformation # << >>
             /\ Len(diagnostics[d].relatedInformation[1]) + Cardinality(ReenteredIn(d))
                   <= Len(initialDiagnostics[d].relatedInformation[1])
    /\ last.op = "transformDiagnostic" /\ last.done =>
          /\ Completed(last.diagnostic)
          /\ last.returned = get(transformedDiagnostics, last.diagnostic)

MemoStable ==
    \A d \in Diagnostics :
        Completed(d) =>
            /\ has(transformedDiagnostics', d)
            /\ get(transformedDiagnostics', d) = get(transformedDiagnostics, d)
            /\ bodyRuns'[d] = bodyRuns[d]

\* What is left of an activation: the related diagnostics not yet mapped, and its
\* return.
remaining(frame) ==
    1 + (IF frame.relatedInformation = << >> THEN 0
         ELSE Len(frame.relatedInformation[1]) - frame.index + 1)

RECURSIVE remainingBelow(_)
remainingBelow(p) == IF p = 0 THEN 0 ELSE remaining(stack[p]) + remainingBelow(p - 1)

\* Bodies not yet entered, each worth more than the activation it opens, plus what is
\* left of the open activations.
Rank ==
    (MaxRelated + 2) * (NumDiagnostics - Cardinality(DOMAIN transformedDiagnostics))
        + remainingBelow(Len(stack))

RankFalls == stack # << >> => Rank' < Rank

\* C4: a call of transformDiagnostic on any diagnostic graph, cyclic ones included,
\* returns: every step of a running call lowers a rank that is a natural number. While
\* a body runs its memo slot holds undefined; a body runs at most once per diagnostic;
\* an occurrence of a diagnostic whose body is still running maps to undefined and is
\* dropped from the related list; a completed diagnostic's memo entry never changes and
\* is what every later call returns.
C4_Terminates ==
    /\ [](MemoDiscipline /\ Rank \in Nat)
    /\ [][MemoStable /\ RankFalls]_vars

\* A call on a two-diagnostic cycle has returned, its re-entrant occurrence read, and a
\* later call has been answered from the memo.
C4_Witness ==
    /\ stack = << >>
    /\ last.op = "transformDiagnostic"
    /\ last.done
    /\ bodyRuns[last.diagnostic] = 1
    /\ \E pair \in reentered :
          /\ initialDiagnostics[pair[1]].relatedInformation[1][pair[2]] # pair[1]
          /\ last.diagnostic = pair[1]
          /\ diagnostics[pair[1]].relatedInformation = << << >> >>

\* C10: once a call of transformDiagnostic has returned, every diagnostic handed in has
\* the fields it had before, its relatedInformation list included.
C10_InputsUntouched ==
    stack = << >> =>
        \A d \in Diagnostics : diagnostics[d] = initialDiagnostics[d]

----------------------------------------------------------------------------
(* Round trip through one segment; order of range results *)

\* The translator's map is one mapping with one segment, which passes the query's filter.
OneSegment(q) ==
    /\ Len(map) = 1
    /\ Len(map[1].lengths) = 1
    /\ 1 \in Passing(q.filter)

PositionOffset(q) == offsetAt(FromDoc(q.op), q.arg)

\* C11: with a map of one single-segment mapping, getGeneratedPosition of a source
\* offset s inside the segment is the position of generatedStart + (s - sourceStart),
\* and getSourcePosition of that position is the position of s again; getSourcePosition
\* of a generated offset outside the segment is undefined.
C11_RoundTrip ==
    /\ (last.done /\ last.op = "getGeneratedPosition" /\ OneSegment(last)
            /\ InSegment(last.op, 1, 1, PositionOffset(last))) =>
          /\ last.result =
               << positionAt(virtualFileDocument, Shift(last.op, 1, 1, PositionOffset(last))) >>
          /\ getSourcePosition(last.result[1], last.filter)
               = << positionAt(sourceFileDocument, PositionOffset(last)) >>
          /\ offsetAt(sourceFileDocument,
                      getSourcePosition(last.result[1], last.filter)[1])
               = PositionOffset(last)
    /\ (last.done /\ last.op = "getSourcePosition" /\ OneSegment(last)
            /\ ~InSegment(last.op, 1, 1, PositionOffset(last))) =>
          last.result = << >>

\* Segment source [0,3) -> generated [1,4): getGeneratedPosition of source offset 1 has
\* answered generated offset 2.
C11_Witness ==
    /\ last.done
    /\ last.op = "getGeneratedPosition"
    /\ map = << Mapping(<<0>>, <<1>>, <<3>>, Full) >>
    /\ last.filter = "all"
    /\ PositionOffset(last) = 1
    /\ last.result = << positionAt(virtualFileDocument, 2) >>
    /\ getSourcePosition(last.result[1], last.filter) = << last.arg >>

\* Filter-passing mappings that translate both the range's start and its end.
ExactStarts(q) ==
    { i \in Passing(q.filter) :
        Translates(q.op, i, RangeStart(q)) /\ Translates(q.op, i, RangeEnd(q)) }

\* Yield a comes before yield b: first loop before second; within the first loop by the
\* start's mapping; within the second by the failed start's mapping, then the end's.
YieldedBefore(a, b) ==
    \/ a.loop < b.loop
    \/ a.loop = b.loop /\ a.startMapping < b.startMapping
    \/ a.loop = 2 /\ b.loop = 2 /\ a.startMapping = b.startMapping
          /\ a.endMapping < b.endMapping

Yields(loop) == { n \in 1..Len(last.traced) : last.traced[n].loop = loop }

\* C12: order of range results. getSourceRanges / getGeneratedRanges yield one
\* same-mapping range per start candidate whose mapping translates the end, in mapping
\* declaration order, then the fallback ranges: one for every start candidate whose
\* mapping failed on the end and every filtered end candidate, and no others. So
\* getSourceRange / getGeneratedRange answers a fallback range only when no start
\* candidate's mapping translates the end.
C12_ExactBeforeFallback ==
    /\ RangesAnswered =>
          /\ \A n \in 1..Len(last.traced) : \A m \in 1..Len(last.traced) :
                n < m => YieldedBefore(last.traced[n], last.traced[m])
          /\ { last.traced[n].startMapping : n \in Yields(1) } = ExactStarts(last)
          /\ \A n \in Yields(1) :
                last.traced[n].endMapping = last.traced[n].startMapping
          /\ { << last.traced[n].startMapping, last.traced[n].endMapping >> : n \in Yields(2) }
                = FailedStarts(last) \X EndCandidates(last)
    /\ SingleRangeAnswered =>
          /\ Len(last.traced) = Len(last.result)
          /\ (ExactStarts(last) # {} =>
                /\ last.result # << >>
                /\ last.traced[1].loop = 1
                /\ \A i \in ExactStarts(last) : last.traced[1].startMapping <= i)
          /\ (last.result # << >> /\ last.traced[1].loop = 2 =>
                /\ ExactStarts(last) = {}
                /\ last.traced[1].startMapping \in FailedStarts(last))

\* The first declared mapping translates only the start, the second both ends: the
\* second's exact range is yielded ahead of the fallback range of the first.
C12_Witness ==
    /\ RangesAnswered
    /\ Len(last.traced) = 2
    /\ last.traced[1].loop = 1
    /\ last.traced[1].startMapping = 2
    /\ last.traced[2].loop = 2
    /\ last.traced[2].startMapping = 1
    /\ last.traced[2].endMapping = 2
    /\ last.result[1] # last.result[2]

====
